---- MODULE Spec2Model ----
(***************************************************************************)
(* A model of ddupload: the DragDropUpload widget (src/ddupload.js) and    *)
(* the upload endpoint (src/upload.php).                                   *)
(*                                                                         *)
(* Strings are sequences of symbols.  A symbol is either one of the        *)
(* characters the code treats specially ("." and "/" for pathinfo and      *)
(* basename, "<" for htmlspecialchars, "0" for PHP's empty()) or a run of  *)
(* ordinary characters such as "report" or "pdf".                          *)
(***************************************************************************)
EXTENDS Integers, Sequences, FiniteSets, TLC

VARIABLES
  \* ---- upload.php: file name resolution alone (lines 40-56) ----
  nOrig,        \* $file['name']
  nDesired,     \* $newFileName as passed in
  nFinal,       \* $newFileName after line 56
  nPc,          \* "start" | "done"
  \* ---- upload.php: the endpoint ----
  req,          \* the request: method, $_FILES, $_POST
  idx,          \* position of the foreach over $_FILES (line 73)
  messages,     \* $messages
  output,       \* what the request has echoed
  dirExists,    \* is_dir($uploadDir)
  stored,       \* the filesystem: path -> the upload moved there
  nReq,         \* requests received so far
  ePc,          \* "idle" | "loop" | "done"
  \* ---- ddupload.js: one DragDropUpload instance ----
  options,      \* this.options: maxFileSize, allowedFileTypes
  dom,          \* what the widget has set on its elements' styles and text
  dragover,     \* the drop zone carries the class 'dragover'
  inputFiles,   \* this.fileInput.files
  event,        \* the last drop or change event: its type and its files
  calls,        \* the callbacks invoked while handling that event
  handled,      \* <<f>> for the file f last passed to validateFile, <<>> before the first
  \* ---- upload.php: requests handled at the same time, one file each ----
  cReq,         \* request -> its file and the desired name
  cPc,          \* request -> "start" | "mkdir" | "move" | "done" within uploadFile
  cMsg,         \* request -> the message uploadFile returned, <<>> before
  written       \* the requests whose move_uploaded_file succeeded, in that order

nameVars == <<nOrig, nDesired, nFinal, nPc>>
endpointVars == <<req, idx, messages, output, dirExists, stored, nReq, ePc>>
widgetVars == <<options, dom, dragover, inputFiles, event, calls, handled>>
concurrentVars == <<cReq, cPc, cMsg, written>>
vars == <<nameVars, endpointVars, widgetVars, concurrentVars>>

(***************************************************************************)
(* Bounds of the model.                                                    *)
(***************************************************************************)
MaxNameLen == 4
MaxFiles == 2
MaxRequests == 2
MaxDropFiles == 2
MaxConcurrent == 2

\* every string over the symbols S of length at most n
StringsUpTo(S, n) == UNION {[1..k -> S] : k \in 0..n}

(***************************************************************************)
(* PHP string functions used by upload.php                                 *)
(***************************************************************************)
\* position of the last occurrence of symbol c in s, 0 if there is none
LastIndexOf(s, c) ==
  LET P == {i \in 1..Len(s) : s[i] = c}
  IN  IF P = {} THEN 0 ELSE CHOOSE i \in P : \A j \in P : j <= i

\* PHP basename(): the last maximal run of non-separator characters
\* (trailing separators are skipped; "" when there is no such run)
Basename(s) ==
  LET E == {i \in 1..Len(s) : s[i] # "/"}
  IN  IF E = {} THEN <<>>
      ELSE LET e == CHOOSE i \in E : \A j \in E : j <= i
               B == {i \in 1..e : \A j \in i..e : s[j] # "/"}
               b == CHOOSE i \in B : \A j \in B : i <= j
           IN  SubSeq(s, b, e)

\* pathinfo($s, PATHINFO_EXTENSION) and pathinfo($s)['extension']: what
\* follows the last "." of the base name; "" (or an unset key, which
\* concatenates and compares like "") when the base name has no "."
PathinfoExtension(s) ==
  LET b == Basename(s)
      p == LastIndexOf(b, ".")
  IN  IF p = 0 THEN <<>> ELSE SubSeq(b, p + 1, Len(b))

\* pathinfo($s, PATHINFO_FILENAME): the base name up to its last "."
PathinfoFilename(s) ==
  LET b == Basename(s)
      p == LastIndexOf(b, ".")
  IN  IF p = 0 THEN b ELSE SubSeq(b, 1, p - 1)

\* PHP empty() of a string: "" and "0" are empty
Empty(s) == s = <<>> \/ s = <<"0">>

\* htmlspecialchars(): "<" becomes the entity "&lt;"
HtmlSpecialChars(s) == [i \in 1..Len(s) |-> IF s[i] = "<" THEN "&lt;" ELSE s[i]]

(***************************************************************************)
(* upload.php, uploadFile lines 40-56: the final file name                 *)
(***************************************************************************)
\* FinalFileName with line 46 appending the extension without the "."
FinalFileName_NoDot(origName, newFileName) ==
  LET fileExtension == PathinfoExtension(origName)
  IN  IF Empty(PathinfoExtension(newFileName))
      THEN newFileName \o fileExtension
      ELSE LET base == Basename(newFileName)
               newFileExtension == PathinfoExtension(base)
           IN  IF newFileExtension # fileExtension
               THEN PathinfoFilename(base) \o <<".">> \o fileExtension
               ELSE base

FinalFileName(origName, newFileName) ==
  LET fileExtension == PathinfoExtension(origName)
  IN  IF Empty(PathinfoExtension(newFileName))
      THEN newFileName \o <<".">> \o fileExtension
      ELSE LET base == Basename(newFileName)
               newFileExtension == PathinfoExtension(base)
           IN  IF newFileExtension # fileExtension
               THEN PathinfoFilename(base) \o <<".">> \o fileExtension
               ELSE base

\* $uploadDir (line 3) and $uploadFilePath (line 59)
uploadDir == <<"uploads", "/">>
UploadFilePath(newFileName) == uploadDir \o newFileName

(***************************************************************************)
(* upload.php: configuration (lines 3-5) and uploadFile (lines 15-67)      *)
(***************************************************************************)
maxFileSize == 2097152
allowedFileTypes ==
  { <<"image", "/", "jpeg">>, <<"image", "/", "png">>, <<"image", "/", "gif">>,
    <<"application", "/", "pdf">>, <<"application", "/", "msword">> }
UPLOAD_ERR_OK == 0

\* move_uploaded_file() can succeed only if the destination's directory
\* exists and the destination is not itself a directory; for a file name
\* that leaves the upload directory the environment decides
CanMove(dir, newFileName) ==
  \/ \E i \in 1..Len(newFileName) : newFileName[i] = "/"
  \/ dir /\ newFileName \notin {<<".">>, <<".", ".">>}

\* Move refusing to replace a file that is already at path
Move_KeepsExisting(fs, path, file) ==
  [p \in DOMAIN fs \cup {path} |-> IF p \in DOMAIN fs THEN fs[p] ELSE file]

\* the filesystem after a file is moved to path (an existing file is replaced)
Move(fs, path, file) ==
  [p \in DOMAIN fs \cup {path} |-> IF p = path THEN file ELSE fs[p]]

\* UploadFile with the size checked before the type
UploadFile_SizeFirst(file, newFileName, mkdirOk, moveOk, dir, fs) ==
  IF file.error # UPLOAD_ERR_OK
  THEN [message |-> <<"There was an error uploading the file: ", ToString(file.error)>>,
        dirExists |-> dir, stored |-> fs]
  ELSE IF file.size > maxFileSize
  THEN [message |-> <<"File is too large: ">> \o file.name,
        dirExists |-> dir, stored |-> fs]
  ELSE IF file.type \notin allowedFileTypes
  THEN [message |-> <<"File type not allowed: ">> \o file.type,
        dirExists |-> dir, stored |-> fs]
  ELSE LET dirAfter == IF ~dir THEN mkdirOk ELSE dir
           finalName == FinalFileName(file.name, newFileName)
           uploadFilePath == UploadFilePath(finalName)
       IN  IF moveOk /\ CanMove(dirAfter, finalName)
           THEN [message |-> <<"File uploaded successfully: ">> \o HtmlSpecialChars(finalName),
                 dirExists |-> dirAfter, stored |-> Move(fs, uploadFilePath, file)]
           ELSE [message |-> <<"There was an error moving the uploaded file">>,
                 dirExists |-> dirAfter, stored |-> fs]

\* UploadFile creating the upload directory before the checks
UploadFile_MkdirFirst(file, newFileName, mkdirOk, moveOk, dir, fs) ==
  LET dirAfter == IF ~dir THEN mkdirOk ELSE dir
  IN  IF file.error # UPLOAD_ERR_OK
      THEN [message |-> <<"There was an error uploading the file: ", ToString(file.error)>>,
            dirExists |-> dirAfter, stored |-> fs]
      ELSE IF file.type \notin allowedFileTypes
      THEN [message |-> <<"File type not allowed: ">> \o file.type,
            dirExists |-> dirAfter, stored |-> fs]
      ELSE IF file.size > maxFileSize
      THEN [message |-> <<"File is too large: ">> \o file.name,
            dirExists |-> dirAfter, stored |-> fs]
      ELSE LET finalName == FinalFileName(file.name, newFileName)
               uploadFilePath == UploadFilePath(finalName)
           IN  IF moveOk /\ CanMove(dirAfter, finalName)
               THEN [message |-> <<"File uploaded successfully: ">> \o HtmlSpecialChars(finalName),
                     dirExists |-> dirAfter, stored |-> Move(fs, uploadFilePath, file)]
               ELSE [message |-> <<"There was an error moving the uploaded file">>,
                     dirExists |-> dirAfter, stored |-> fs]

\* uploadFile($file, $newFileName) run with the upload directory in state
\* dir and the files fs; mkdirOk and moveOk are what mkdir() and
\* move_uploaded_file() would return if nothing else prevents them
UploadFile(file, newFileName, mkdirOk, moveOk, dir, fs) ==
  IF file.error # UPLOAD_ERR_OK
  THEN [message |-> <<"There was an error uploading the file: ", ToString(file.error)>>,
        dirExists |-> dir, stored |-> fs]
  ELSE IF file.type \notin allowedFileTypes
  THEN [message |-> <<"File type not allowed: ">> \o file.type,
        dirExists |-> dir, stored |-> fs]
  ELSE IF file.size > maxFileSize
  THEN [message |-> <<"File is too large: ">> \o file.name,
        dirExists |-> dir, stored |-> fs]
  ELSE LET dirAfter == IF ~dir THEN mkdirOk ELSE dir
           finalName == FinalFileName(file.name, newFileName)
           uploadFilePath == UploadFilePath(finalName)
       IN  IF moveOk /\ CanMove(dirAfter, finalName)
           THEN [message |-> <<"File uploaded successfully: ">> \o HtmlSpecialChars(finalName),
                 dirExists |-> dirAfter, stored |-> Move(fs, uploadFilePath, file)]
           ELSE [message |-> <<"There was an error moving the uploaded file">>,
                 dirExists |-> dirAfter, stored |-> fs]

(***************************************************************************)
(* Inputs of the endpoint: the uploads ($_FILES entries) and the desired   *)
(* names ($_POST fields) a request can carry                               *)
(***************************************************************************)
Uploads ==
  { [name |-> <<"f", ".", "pdf">>, type |-> <<"application", "/", "pdf">>,
     size |-> maxFileSize, error |-> 0],
    [name |-> <<"g", ".", "pdf">>, type |-> <<"application", "/", "pdf">>,
     size |-> 1024, error |-> 0],
    [name |-> <<"<", "b", ".", "png">>, type |-> <<"image", "/", "png">>,
     size |-> maxFileSize + 1, error |-> 0],
    [name |-> <<"f", ".", "pdf">>, type |-> <<"text", "/", "<", "html">>,
     size |-> maxFileSize + 1, error |-> 0],
    [name |-> <<"<", "b", ".", "png">>, type |-> <<"text", "/", "<", "html">>,
     size |-> maxFileSize + 1, error |-> 1] }

EndpointNames ==
  { <<"report", ".", "txt">>, <<"<", "b">>,
    <<".", ".", "/", ".", ".", "/", "etc", "/", "passwd">> }

\* the i-th file field of the form and the text field paired with it
FileKey(i) == <<"upload-container-", ToString(i)>>
NameKey(i) == <<"file_name_", ToString(i)>>

PostRequests ==
  UNION { { [method |-> "POST",
             files |-> [i \in 1..k |-> [key |-> FileKey(i), file |-> us[i]]],
             post |-> [f \in {NameKey(i) : i \in 1..k} |->
                         ds[CHOOSE i \in 1..k : NameKey(i) = f]]]
            : us \in [1..k -> Uploads], ds \in [1..k -> EndpointNames] }
          : k \in 0..MaxFiles }
Requests ==
  PostRequests \cup {[method |-> "GET", files |-> <<>>, post |-> <<>>]}

NoRequest == [method |-> "", files |-> <<>>, post |-> <<>>]

EndpointInit ==
  /\ req = NoRequest
  /\ idx = 1
  /\ messages = <<>>
  /\ output = <<>>
  /\ dirExists = FALSE
  /\ stored = <<>>
  /\ nReq = 0
  /\ ePc = "idle"

(***************************************************************************)
(* ddupload.js: validateFile, resetDisplay, displayFile                    *)
(***************************************************************************)
\* ToFixed2MB cutting the digits after the second instead of rounding
ToFixed2MB_Truncate(bytes) ==
  LET n == (bytes * 100) \div 1048576
      c == n % 100
  IN  ToString(n \div 100) \o "." \o (IF c < 10 THEN "0" ELSE "") \o ToString(c)

\* Number.prototype.toFixed(2) of bytes / 1024 / 1024: the division is exact
\* in floating point, and toFixed takes the nearest hundredth, the larger
\* one on a tie
ToFixed2MB(bytes) ==
  LET n == (bytes * 200 + 1048576) \div 2097152
      c == n % 100
  IN  ToString(n \div 100) \o "." \o (IF c < 10 THEN "0" ELSE "") \o ToString(c)

\* the template strings of lines 160 and 163
SizeMessage(file, maxSize) ==
  <<"The file ">> \o file.name
    \o <<" is too large (maximum size is ", ToFixed2MB(maxSize),
         "MB). Your file is ", ToFixed2MB(file.size), "MB.">>
TypeMessage(file) ==
  <<"The file ">> \o file.name \o <<" is not a permitted file type.">>

\* ValidateFile rejecting a file whose size equals the maximum
ValidateFile_SizeInclusive(file, opts) ==
  IF opts.maxFileSize > 0 /\ file.size >= opts.maxFileSize
  THEN [valid |-> FALSE,
        calls |-> <<[fn |-> "onError", file |-> file,
                     message |-> SizeMessage(file, opts.maxFileSize)]>>]
  ELSE IF file.type \notin opts.allowedFileTypes /\ <<"*">> \notin opts.allowedFileTypes
  THEN [valid |-> FALSE,
        calls |-> <<[fn |-> "onError", file |-> file, message |-> TypeMessage(file)]>>]
  ELSE [valid |-> TRUE, calls |-> <<>>]

\* ValidateFile with the two checks in the other order
ValidateFile_TypeFirst(file, opts) ==
  IF file.type \notin opts.allowedFileTypes /\ <<"*">> \notin opts.allowedFileTypes
  THEN [valid |-> FALSE,
        calls |-> <<[fn |-> "onError", file |-> file, message |-> TypeMessage(file)]>>]
  ELSE IF opts.maxFileSize > 0 /\ file.size > opts.maxFileSize
  THEN [valid |-> FALSE,
        calls |-> <<[fn |-> "onError", file |-> file,
                     message |-> SizeMessage(file, opts.maxFileSize)]>>]
  ELSE [valid |-> TRUE, calls |-> <<>>]

\* ValidateFile comparing the size with the maximum even when it is 0
ValidateFile_NoZeroGuard(file, opts) ==
  IF file.size > opts.maxFileSize
  THEN [valid |-> FALSE,
        calls |-> <<[fn |-> "onError", file |-> file,
                     message |-> SizeMessage(file, opts.maxFileSize)]>>]
  ELSE IF file.type \notin opts.allowedFileTypes /\ <<"*">> \notin opts.allowedFileTypes
  THEN [valid |-> FALSE,
        calls |-> <<[fn |-> "onError", file |-> file, message |-> TypeMessage(file)]>>]
  ELSE [valid |-> TRUE, calls |-> <<>>]

\* ValidateFile with the type check an 'if' of its own instead of an
\* 'else if': a file failing both checks is reported twice
ValidateFile_BothErrors(file, opts) ==
  LET large == opts.maxFileSize > 0 /\ file.size > opts.maxFileSize
      type == file.type \notin opts.allowedFileTypes /\ <<"*">> \notin opts.allowedFileTypes
  IN  [valid |-> ~large /\ ~type,
       calls |-> (IF large THEN <<[fn |-> "onError", file |-> file,
                                   message |-> SizeMessage(file, opts.maxFileSize)]>>
                           ELSE <<>>)
                 \o (IF type THEN <<[fn |-> "onError", file |-> file,
                                     message |-> TypeMessage(file)]>>
                             ELSE <<>>)]

\* validateFile(file) (lines 157-167): what it returns and the onError
\* calls it makes
ValidateFile(file, opts) ==
  IF opts.maxFileSize > 0 /\ file.size > opts.maxFileSize
  THEN [valid |-> FALSE,
        calls |-> <<[fn |-> "onError", file |-> file,
                     message |-> SizeMessage(file, opts.maxFileSize)]>>]
  ELSE IF file.type \notin opts.allowedFileTypes /\ <<"*">> \notin opts.allowedFileTypes
  THEN [valid |-> FALSE,
        calls |-> <<[fn |-> "onError", file |-> file, message |-> TypeMessage(file)]>>]
  ELSE [valid |-> TRUE, calls |-> <<>>]

\* ResetDisplay leaving the preview's text in place
ResetDisplay_KeepsPreview(d) ==
  [d EXCEPT !.messageDisplay = "block", !.backgroundImage = <<>>]

\* resetDisplay() (lines 146-150)
ResetDisplay(d) ==
  [d EXCEPT !.messageDisplay = "block", !.previewText = <<>>, !.backgroundImage = <<>>]

\* String.prototype.toUpperCase() on the symbols file names are made of
UpperSymbol(c) ==
  CASE c = "pdf" -> "PDF"
    [] c = "png" -> "PNG"
    [] c = "doc" -> "DOC"
    [] c = "photo" -> "PHOTO"
    [] OTHER -> c
ToUpperCase(s) == [i \in 1..Len(s) |-> UpperSymbol(s[i])]

\* file.name.split('.').pop(): what follows the last ".", the whole name
\* when it has none
LastDotSegment(name) == SubSeq(name, LastIndexOf(name, ".") + 1, Len(name))

\* file.type.startsWith('image/')
IsImage(file) == Len(file.type) >= 2 /\ file.type[1] = "image" /\ file.type[2] = "/"

\* displayFile(file) (lines 174-188)
DisplayFile(d, file) ==
  LET shown == [d EXCEPT !.messageDisplay = "none",
                         !.backgroundRepeat = "no-repeat",
                         !.backgroundPosition = "center"]
  IN  IF IsImage(file)
      THEN [shown EXCEPT !.backgroundImage = <<"url", "blob", file>>,
                         !.backgroundSize = "cover"]
      ELSE [shown EXCEPT !.backgroundImage = <<"url", "fileThumb">>,
                         !.backgroundSize = "100px",
                         !.previewText = ToUpperCase(LastDotSegment(file.name))]

(***************************************************************************)
(* Inputs of the widget: its options and the files a user can bring        *)
(***************************************************************************)
DefaultAllowedFileTypes ==
  { <<"image", "/", "jpeg">>, <<"image", "/", "png">>,
    <<"image", "/", "gif">>, <<"image", "/", "webp">> }
\* the options objects passed to the constructor: each option given or left out
OptionsGiven ==
  { [maxFileSize |-> m, allowedFileTypes |-> a] : m \in {0, 2 * 1024 * 1024}, a \in {{<<"*">>}} }
  \cup { [maxFileSize |-> m] : m \in {0, 2 * 1024 * 1024} }
  \cup { [allowedFileTypes |-> a] : a \in {{<<"*">>}} }
  \cup { <<>> }

\* this.options (lines 29-35): an option left out, or falsy, takes its default
ConstructOptions(given) ==
  [maxFileSize |->
     IF "maxFileSize" \in DOMAIN given /\ given.maxFileSize # 0
     THEN given.maxFileSize ELSE 0,
   allowedFileTypes |->
     IF "allowedFileTypes" \in DOMAIN given
     THEN given.allowedFileTypes ELSE DefaultAllowedFileTypes]

OptionSets == { ConstructOptions(given) : given \in OptionsGiven }

WidgetFiles ==
  { [name |-> <<"photo", ".", "png">>, type |-> <<"image", "/", "png">>, size |-> 131072],
    [name |-> <<"photo", ".", "png">>, type |-> <<"image", "/", "png">>, size |-> 2097152],
    [name |-> <<"photo", ".", "png">>, type |-> <<"image", "/", "png">>, size |-> 2097153],
    [name |-> <<"doc", ".", "pdf">>, type |-> <<"application", "/", "pdf">>, size |-> 131072],
    [name |-> <<"doc", ".", "pdf">>, type |-> <<"application", "/", "pdf">>, size |-> 2752512],
    [name |-> <<"README">>, type |-> <<"text", "/", "plain">>, size |-> 131072] }

\* the FileList of a drop; the file picker (multiple = false) gives at most one
DropLists == StringsUpTo(WidgetFiles, MaxDropFiles)
PickerLists == StringsUpTo(WidgetFiles, 1)

\* the constructor (lines 17-40)
NoEvent == [type |-> "", files |-> <<>>]
InitialDom ==
  [messageDisplay |-> "", previewText |-> <<>>, backgroundImage |-> <<>>,
   backgroundSize |-> "", backgroundRepeat |-> "", backgroundPosition |-> ""]

WidgetConstructed(opts) ==
  /\ options = opts
  /\ dom = InitialDom
  /\ dragover = FALSE
  /\ inputFiles = <<>>
  /\ event = NoEvent
  /\ calls = <<>>
  /\ handled = <<>>

WidgetInit == \E opts \in OptionSets : WidgetConstructed(opts)
WidgetQuiet ==
  WidgetConstructed([maxFileSize |-> 0, allowedFileTypes |-> DefaultAllowedFileTypes])

(***************************************************************************)
(* upload.php under concurrent requests: every request runs uploadFile on  *)
(* its one file; is_dir, mkdir and move_uploaded_file are separate         *)
(* operations on the one filesystem                                        *)
(***************************************************************************)
ConcurrentRequests == 1..MaxConcurrent

ConcurrentQuiet ==
  /\ cReq = <<>>
  /\ cPc = <<>>
  /\ cMsg = <<>>
  /\ written = <<>>

ConcurrentInit ==
  /\ cReq \in [ConcurrentRequests -> [file : Uploads, fileName : EndpointNames]]
  /\ cPc = [r \in ConcurrentRequests |-> "start"]
  /\ cMsg = [r \in ConcurrentRequests |-> <<>>]
  /\ written = <<>>

(***************************************************************************)
(* Inputs of the name resolution                                           *)
(***************************************************************************)
NameChars == {"x", "pdf", "0", ".", "/"}
ExampleNames ==
  { <<"report">>, <<"report", ".", "txt">>, <<"report", ".", "pdf">>,
    <<".", ".", "/", ".", ".", "/", "etc", "/", "passwd">> }
DesiredNames == StringsUpTo(NameChars, MaxNameLen) \cup ExampleNames
OrigNames == { <<"f", ".", "pdf">>, <<"f", ".", "txt">>, <<"f">> }

NameQuiet ==
  /\ nOrig = <<>>
  /\ nDesired = <<>>
  /\ nFinal = <<>>
  /\ nPc = "done"

NameInit ==
  /\ nOrig \in OrigNames
  /\ nDesired \in DesiredNames
  /\ nFinal = <<>>
  /\ nPc = "start"

ResolveName ==
  /\ nPc = "start"
  /\ nFinal' = FinalFileName(nOrig, nDesired)
  /\ nPc' = "done"
  /\ UNCHANGED <<nOrig, nDesired>>

NextName == ResolveName /\ UNCHANGED <<endpointVars, widgetVars, concurrentVars>>
InitName == NameInit /\ EndpointInit /\ WidgetQuiet /\ ConcurrentQuiet
SpecName == InitName /\ [][NextName]_vars

(***************************************************************************)
(* upload.php: the POST handler (lines 70-88)                              *)
(***************************************************************************)
\* line 75: str_replace('upload-container-', 'file_name_', $key)
InputName(key) ==
  [i \in 1..Len(key) |-> IF key[i] = "upload-container-" THEN "file_name_" ELSE key[i]]

\* UploadFileStep with the loop given up at the first file that fails
UploadFileStep_StopAtFailure ==
  /\ ePc = "loop"
  /\ idx <= Len(req.files)
  /\ LET key == req.files[idx].key
         file == req.files[idx].file
         fileName == req.post[InputName(key)]
     IN  \E mkdirOk \in BOOLEAN, moveOk \in BOOLEAN :
           LET r == UploadFile(file, fileName, mkdirOk, moveOk, dirExists, stored)
           IN  /\ messages' = Append(messages, r.message)
               /\ dirExists' = r.dirExists
               /\ stored' = r.stored
               /\ idx' = IF r.message[1] = "File uploaded successfully: "
                         THEN idx + 1 ELSE Len(req.files) + 1
  /\ UNCHANGED <<req, output, nReq, ePc, nameVars, widgetVars, concurrentVars>>

\* one iteration of the foreach (lines 73-80): uploadFile() on the next file
UploadFileStep ==
  /\ ePc = "loop"
  /\ idx <= Len(req.files)
  /\ LET key == req.files[idx].key
         file == req.files[idx].file
         fileName == req.post[InputName(key)]
     IN  \E mkdirOk \in BOOLEAN, moveOk \in BOOLEAN :
           LET r == UploadFile(file, fileName, mkdirOk, moveOk, dirExists, stored)
           IN  /\ messages' = Append(messages, r.message)
               /\ dirExists' = r.dirExists
               /\ stored' = r.stored
  /\ idx' = idx + 1
  /\ UNCHANGED <<req, output, nReq, ePc, nameVars, widgetVars, concurrentVars>>

\* lines 83-85: echo $message.'<br>' for each message
Echo(msgs) == [i \in 1..Len(msgs) |-> msgs[i] \o <<"<br>">>]

EchoMessages ==
  /\ ePc = "loop"
  /\ idx > Len(req.files)
  /\ output' = Echo(messages)
  /\ ePc' = "done"
  /\ UNCHANGED <<req, idx, messages, dirExists, stored, nReq, nameVars, widgetVars, concurrentVars>>

\* line 70: a POST request starts the loop with $messages = []
ReceivePost ==
  /\ ePc = "idle"
  /\ nReq < MaxRequests
  /\ \E r \in Requests :
       /\ r.method = "POST"
       /\ req' = r
  /\ idx' = 1
  /\ messages' = <<>>
  /\ output' = <<>>
  /\ ePc' = "loop"
  /\ nReq' = nReq + 1
  /\ UNCHANGED <<dirExists, stored, nameVars, widgetVars, concurrentVars>>

\* lines 86-88: any other request method
ReceiveOther ==
  /\ ePc = "idle"
  /\ nReq < MaxRequests
  /\ \E r \in Requests :
       /\ r.method # "POST"
       /\ req' = r
  /\ output' = << <<"Please upload files">> >>
  /\ messages' = <<>>
  /\ idx' = 1
  /\ nReq' = nReq + 1
  /\ ePc' = "done"
  /\ UNCHANGED <<dirExists, stored, nameVars, widgetVars, concurrentVars>>

\* the request ends: its variables and its output are gone, the files stay
EndRequest ==
  /\ ePc = "done"
  /\ req' = NoRequest
  /\ idx' = 1
  /\ messages' = <<>>
  /\ output' = <<>>
  /\ ePc' = "idle"
  /\ UNCHANGED <<dirExists, stored, nReq, nameVars, widgetVars, concurrentVars>>

NextEndpoint ==
  \/ ReceivePost
  \/ ReceiveOther
  \/ UploadFileStep
  \/ EchoMessages
  \/ EndRequest

InitEndpoint == NameQuiet /\ EndpointInit /\ WidgetQuiet /\ ConcurrentQuiet
SpecEndpoint == InitEndpoint /\ [][NextEndpoint]_vars

(***************************************************************************)
(* upload.php: uploadFile step by step in concurrent requests              *)
(***************************************************************************)
\* lines 20-35: the three checks, then is_dir($uploadDir)
CheckStep(r) ==
  /\ cPc[r] = "start"
  /\ LET res == UploadFile(cReq[r].file, cReq[r].fileName, FALSE, FALSE, dirExists, stored)
     IN  IF res.message[1] # "There was an error moving the uploaded file"
         THEN /\ cMsg' = [cMsg EXCEPT ![r] = res.message]
              /\ cPc' = [cPc EXCEPT ![r] = "done"]
         ELSE /\ cPc' = [cPc EXCEPT ![r] = IF dirExists THEN "move" ELSE "mkdir"]
              /\ UNCHANGED cMsg
  /\ UNCHANGED <<cReq, written, dirExists, stored>>
  /\ UNCHANGED <<req, idx, messages, output, nReq, ePc, nameVars, widgetVars>>

\* line 36: mkdir(); it fails when another request has made the directory
MkdirStep(r) ==
  /\ cPc[r] = "mkdir"
  /\ \E mkdirOk \in BOOLEAN : dirExists' = (dirExists \/ mkdirOk)
  /\ cPc' = [cPc EXCEPT ![r] = "move"]
  /\ UNCHANGED <<cReq, cMsg, written, stored>>
  /\ UNCHANGED <<req, idx, messages, output, nReq, ePc, nameVars, widgetVars>>

\* lines 40-66: the final name, move_uploaded_file() and the message
MoveStep(r) ==
  /\ cPc[r] = "move"
  /\ \E moveOk \in BOOLEAN :
       LET res == UploadFile(cReq[r].file, cReq[r].fileName, FALSE, moveOk, dirExists, stored)
       IN  /\ stored' = res.stored
           /\ cMsg' = [cMsg EXCEPT ![r] = res.message]
           /\ written' = IF res.message[1] = "File uploaded successfully: "
                         THEN Append(written, r) ELSE written
  /\ cPc' = [cPc EXCEPT ![r] = "done"]
  /\ UNCHANGED <<cReq, dirExists>>
  /\ UNCHANGED <<req, idx, messages, output, nReq, ePc, nameVars, widgetVars>>

NextConcurrent ==
  \E r \in ConcurrentRequests : CheckStep(r) \/ MkdirStep(r) \/ MoveStep(r)

InitConcurrent == NameQuiet /\ EndpointInit /\ WidgetQuiet /\ ConcurrentInit
SpecConcurrent == InitConcurrent /\ [][NextConcurrent]_vars

(***************************************************************************)
(* ddupload.js: the event handlers                                         *)
(***************************************************************************)
\* HandleFiles calling onChanged whatever validateFile returned
HandleFiles_ChangedAfterError(type, files, assigned) ==
  /\ event' = [type |-> type, files |-> files]
  /\ IF Len(files) > 0
     THEN LET file == files[1]
              v == ValidateFile(file, options)
          IN  /\ handled' = <<file>>
              /\ calls' = v.calls \o <<[fn |-> "onChanged", file |-> file]>>
              /\ IF v.valid
                 THEN /\ dom' = DisplayFile(dom, file)
                      /\ inputFiles' = assigned
                 ELSE /\ inputFiles' = <<>>
                      /\ dom' = ResetDisplay(dom)
     ELSE /\ calls' = <<>>
          /\ inputFiles' = assigned
          /\ UNCHANGED <<dom, handled>>

\* handleFiles(files) (lines 130-141), with the file input holding
\* assigned when it is called
HandleFiles(type, files, assigned) ==
  /\ event' = [type |-> type, files |-> files]
  /\ IF Len(files) > 0
     THEN LET file == files[1]
              v == ValidateFile(file, options)
          IN  /\ handled' = <<file>>
              /\ IF v.valid
                 THEN /\ dom' = DisplayFile(dom, file)
                      /\ calls' = v.calls \o <<[fn |-> "onChanged", file |-> file]>>
                      /\ inputFiles' = assigned
                 ELSE /\ inputFiles' = <<>>
                      /\ dom' = ResetDisplay(dom)
                      /\ calls' = v.calls
     ELSE /\ calls' = <<>>
          /\ inputFiles' = assigned
          /\ UNCHANGED <<dom, handled>>

\* assignFilesToInput(files) (lines 111-123): the direct assignment, or the
\* copy through a DataTransfer where the assignment throws
AssignFilesToInput(files, direct) ==
  IF direct THEN files ELSE [i \in 1..Len(files) |-> files[i]]

\* handleDragOver (lines 75-79)
HandleDragOver ==
  /\ dragover' = TRUE
  /\ UNCHANGED <<options, dom, inputFiles, event, calls, handled>>
  /\ UNCHANGED <<nameVars, endpointVars, concurrentVars>>

\* handleDragLeave (lines 85-89)
HandleDragLeave ==
  /\ dragover' = FALSE
  /\ UNCHANGED <<options, dom, inputFiles, event, calls, handled>>
  /\ UNCHANGED <<nameVars, endpointVars, concurrentVars>>

\* HandleDrop without line 98: the class 'dragover' stays
HandleDrop_KeepsHighlight ==
  /\ \E files \in DropLists, direct \in BOOLEAN :
       HandleFiles("drop", files, AssignFilesToInput(files, direct))
  /\ UNCHANGED <<options, dragover>>
  /\ UNCHANGED <<nameVars, endpointVars, concurrentVars>>

\* handleDrop (lines 95-105)
HandleDrop ==
  /\ \E files \in DropLists, direct \in BOOLEAN :
       HandleFiles("drop", files, AssignFilesToInput(files, direct))
  /\ dragover' = FALSE
  /\ UNCHANGED options
  /\ UNCHANGED <<nameVars, endpointVars, concurrentVars>>

\* the 'change' listener (line 68): the picker has put the user's choice
\* into the file input
HandleChange ==
  /\ \E files \in PickerLists : HandleFiles("change", files, files)
  /\ UNCHANGED <<options, dragover>>
  /\ UNCHANGED <<nameVars, endpointVars, concurrentVars>>

NextWidget ==
  \/ HandleDragOver
  \/ HandleDragLeave
  \/ HandleDrop
  \/ HandleChange

InitWidget == NameQuiet /\ EndpointInit /\ WidgetInit /\ ConcurrentQuiet
SpecWidget == InitWidget /\ [][NextWidget]_vars

(***************************************************************************)
(* Properties of the endpoint                                              *)
(***************************************************************************)
Symbols(s) == {s[i] : i \in 1..Len(s)}

\* a path that names a file directly inside the upload directory
DirectlyInside(path) ==
  /\ Len(path) > Len(uploadDir)
  /\ SubSeq(path, 1, Len(uploadDir)) = uploadDir
  /\ LET name == SubSeq(path, Len(uploadDir) + 1, Len(path))
     IN  "/" \notin Symbols(name) /\ name \notin {<<".">>, <<".", ".">>}

\* C1: every file the endpoint stores is stored directly inside the upload
\* directory: the final file name holds no directory separator and no
\* traversal segment, whatever the desired name was.
C1_StoredInsideUploadDir ==
  \A p \in DOMAIN stored : DirectlyInside(p)

\* C6: every line of the response is escaped: no line the endpoint echoes
\* holds a raw "<" that came from the client (the type, the original name or
\* the desired name of a file).
C6_EveryLineEscaped ==
  \A i \in 1..Len(output) : "<" \notin Symbols(output[i])

\* the lines uploadFile can return for one file taken alone
LinesFor(file, fileName) ==
  { UploadFile(file, fileName, mk, mv, d, <<>>).message \o <<"<br>">>
    : mk \in BOOLEAN, mv \in BOOLEAN, d \in BOOLEAN }

Rejected(file) ==
  \/ file.error # UPLOAD_ERR_OK
  \/ file.type \notin allowedFileTypes
  \/ file.size > maxFileSize

\* C7: a POST answers with exactly one line per submitted file, in
\* submission order, and the line of a file is one that file gets when it is
\* submitted alone: a failure line exactly when the file itself fails a
\* check or its own move fails, whatever happened to the other files.
C7_OneLinePerFile ==
  (ePc = "done" /\ req.method = "POST") =>
    /\ Len(output) = Len(req.files)
    /\ \A i \in 1..Len(req.files) :
         LET file == req.files[i].file
         IN  /\ output[i] \in LinesFor(file, req.post[NameKey(i)])
             /\ Rejected(file) => output[i][1] # "File uploaded successfully: "

\* a valid file after an oversized one: a failure line, then a success line
C7_Witness ==
  /\ ePc = "done"
  /\ Len(req.files) = 2
  /\ req.files[1].file.size > maxFileSize
  /\ output[1][1] = "File is too large: "
  /\ output[2][1] = "File uploaded successfully: "

(***************************************************************************)
(* Properties of the file name resolution                                  *)
(***************************************************************************)
\* C8: a desired name whose extension differs from the original file's is
\* stored as its stem, ".", and the original file's extension.
C8_OriginalExtensionWins ==
  ( /\ nPc = "done"
    /\ nOrig # <<>>
    /\ PathinfoExtension(nDesired) # <<>>
    /\ PathinfoExtension(nDesired) # PathinfoExtension(nOrig) )
  => nFinal = PathinfoFilename(nDesired) \o <<".">> \o PathinfoExtension(nOrig)

\* C9: a desired name without an extension is stored as the desired name,
\* ".", and the original file's extension.
C9_ExtensionAppended ==
  (nPc = "done" /\ nOrig # <<>> /\ PathinfoExtension(nDesired) = <<>>)
  => nFinal = nDesired \o <<".">> \o PathinfoExtension(nOrig)

\* "report" with an original "f.pdf" has become "report.pdf"
C9_Witness ==
  /\ nPc = "done"
  /\ nDesired = <<"report">>
  /\ nOrig = <<"f", ".", "pdf">>
  /\ nFinal = <<"report", ".", "pdf">>

(***************************************************************************)
(* Properties of the widget                                                *)
(***************************************************************************)
\* the last drop or change event carried a file: the one at index 0
EventHasFile == Len(event.files) > 0
EventFile == event.files[1]

TypePermitted(file) ==
  file.type \in options.allowedFileTypes \/ <<"*">> \in options.allowedFileTypes
TooLarge(file) == options.maxFileSize > 0 /\ file.size > options.maxFileSize

\* C2: a file, dropped or picked, whose size is at most the configured
\* maximum and whose type is permitted is accepted: onChanged is called
\* exactly once, with that file, onError is not called, and the file is shown.
C2_ValidFileAccepted ==
  ( /\ EventHasFile
    /\ EventFile.size <= options.maxFileSize
    /\ TypePermitted(EventFile) )
  => /\ calls = <<[fn |-> "onChanged", file |-> EventFile]>>
     /\ dom.messageDisplay = "none"

\* a dropped file of exactly the maximum size has been accepted
C2_Witness ==
  /\ event.type = "drop"
  /\ EventHasFile
  /\ EventFile.size = options.maxFileSize
  /\ calls = <<[fn |-> "onChanged", file |-> EventFile]>>

\* C3 as stated: a file whose type is not permitted is rejected with the
\* type message, whatever its size.
C3_TypeMessageWhateverSize ==
  (EventHasFile /\ ~TypePermitted(EventFile))
  => /\ Len(calls) = 1
     /\ calls[1].fn = "onError"
     /\ calls[1].file = EventFile
     /\ calls[1].message[Len(calls[1].message)] = " is not a permitted file type."

\* C3 amended: a file whose type is not permitted is rejected with one
\* onError call; its message is the type message when the file passes the
\* size check (no maximum, or a size within it) and the size message when it
\* does not.
C3_TypeRejected ==
  (EventHasFile /\ ~TypePermitted(EventFile))
  => /\ Len(calls) = 1
     /\ calls[1].fn = "onError"
     /\ calls[1].file = EventFile
     /\ calls[1].message[Len(calls[1].message)] =
          IF TooLarge(EventFile) THEN "MB." ELSE " is not a permitted file type."

\* a file within the maximum has been rejected for its type
C3_Witness ==
  /\ EventHasFile
  /\ options.maxFileSize > 0
  /\ EventFile.size <= options.maxFileSize
  /\ ~TypePermitted(EventFile)
  /\ Len(calls) = 1
  /\ calls[1].fn = "onError"
  /\ calls[1].message = <<"The file ", "doc", ".", "pdf", " is not a permitted file type.">>

\* the sizes of the model in MB with two decimals
ExpectedMB(bytes) ==
  CASE bytes = 131072 -> "0.13"
    [] bytes = 2097152 -> "2.00"
    [] bytes = 2097153 -> "2.00"
    [] bytes = 2752512 -> "2.63"

\* C4: a file larger than a maximum > 0 is rejected: onChanged is not
\* called, and onError is called once with the size message, which carries
\* the maximum and the file's size in MB with two decimals.
C4_TooLargeRejected ==
  (EventHasFile /\ options.maxFileSize > 0 /\ EventFile.size > options.maxFileSize)
  => calls = <<[fn |-> "onError", file |-> EventFile,
                message |-> <<"The file ">> \o EventFile.name
                  \o <<" is too large (maximum size is ", ExpectedMB(options.maxFileSize),
                       "MB). Your file is ", ExpectedMB(EventFile.size), "MB.">>]>>

\* a file of 2.625 MB has been rejected against a maximum of 2 MB
C4_Witness ==
  /\ EventHasFile
  /\ EventFile.size = 2752512
  /\ Len(calls) = 1
  /\ calls[1].fn = "onError"
  /\ calls[1].message =
       <<"The file ", "doc", ".", "pdf", " is too large (maximum size is ", "2.00",
         "MB). Your file is ", "2.63", "MB.">>

\* C5: the display reflects only the file handled last: an accepted image
\* shows its own picture and no extension label, another accepted file the
\* icon and its own extension, a rejected file the placeholder alone.
C5_DisplayReflectsLastFile ==
  handled # <<>> =>
    LET file == handled[1]
    IN  IF TooLarge(file) \/ ~TypePermitted(file)
        THEN /\ dom.messageDisplay # "none"
             /\ dom.backgroundImage = <<>>
             /\ dom.previewText = <<>>
        ELSE /\ dom.messageDisplay = "none"
             /\ IF IsImage(file)
                THEN /\ dom.backgroundImage = <<"url", "blob", file>>
                     /\ dom.previewText = <<>>
                ELSE /\ dom.backgroundImage = <<"url", "fileThumb">>
                     /\ dom.previewText = ToUpperCase(LastDotSegment(file.name))

\* C10: after a rejection onError has been called with the file and a
\* message, the file input holds nothing, the placeholder is shown, and the
\* background image and the extension label are cleared, whatever was
\* there before.
C10_RejectionResets ==
  (EventHasFile /\ (TooLarge(EventFile) \/ ~TypePermitted(EventFile)))
  => /\ Len(calls) = 1
     /\ calls[1].fn = "onError"
     /\ calls[1].file = EventFile
     /\ Len(calls[1].message) > 0
     /\ inputFiles = <<>>
     /\ dom.messageDisplay = "block"
     /\ dom.backgroundImage = <<>>
     /\ dom.previewText = <<>>

\* a dropped file has been rejected after a file had been shown with the
\* icon and its extension label (the icon's size is still set)
C10_Witness ==
  /\ event.type = "drop"
  /\ EventHasFile
  /\ Len(calls) = 1
  /\ calls[1].fn = "onError"
  /\ dom.backgroundSize = "100px"
  /\ inputFiles = <<>>

\* a file passes the widget's validation
PassesValidation(file) == ~TooLarge(file) /\ TypePermitted(file)

\* C11: every file the file input holds, and so every file a submission of
\* the form would carry, has passed the widget's size and type validation.
C11_InputHoldsOnlyValidFiles ==
  \A i \in 1..Len(inputFiles) : PassesValidation(inputFiles[i])

\* C12: with maxFileSize 0 no file is rejected for its size: a file is
\* accepted exactly when its type is permitted, and a rejection carries the
\* type message.
C12_NoLimitNoSizeCheck ==
  (EventHasFile /\ options.maxFileSize = 0)
  => /\ Len(calls) = 1
     /\ calls[1].file = EventFile
     /\ IF TypePermitted(EventFile)
        THEN calls[1].fn = "onChanged"
        ELSE /\ calls[1].fn = "onError"
             /\ calls[1].message = <<"The file ">> \o EventFile.name
                                      \o <<" is not a permitted file type.">>

\* without a maximum a file of 2.625 MB has been accepted
C12_Witness ==
  /\ options.maxFileSize = 0
  /\ EventHasFile
  /\ EventFile.size = 2752512
  /\ calls = <<[fn |-> "onChanged", file |-> EventFile]>>
  /\ inputFiles = <<EventFile>>

\* C13: the size is checked before the type and one error is reported per
\* rejected file: a file both too large and of a type not permitted gets the
\* size message alone, and the type message is given only to a file that
\* passes the size check.
C13_SizeBeforeType ==
  EventHasFile =>
    /\ (TooLarge(EventFile) /\ ~TypePermitted(EventFile))
         => /\ Len(calls) = 1
            /\ calls[1].fn = "onError"
            /\ calls[1].message[2 + Len(EventFile.name)] = " is too large (maximum size is "
    /\ \A i \in 1..Len(calls) :
         ( /\ calls[i].fn = "onError"
           /\ calls[i].message[Len(calls[i].message)] = " is not a permitted file type." )
         => ~TooLarge(EventFile)

\* a file too large and of a type not permitted has been rejected
C13_Witness ==
  /\ EventHasFile
  /\ TooLarge(EventFile)
  /\ ~TypePermitted(EventFile)
  /\ Len(calls) = 1
  /\ calls[1].fn = "onError"
  /\ calls[1].message[Len(calls[1].message)] = "MB."

\* C14: of the files of a drop or change only the one at index 0 becomes
\* part of the widget's state: the file input holds that file or nothing.
C14_OnlyFirstFileKept ==
  EventHasFile => inputFiles \in {<<>>, <<EventFile>>}

\* C17: the highlight is set by a drag over the drop zone, removed by every
\* drag-leave and every drop, whatever the drop carries and whether its file
\* is accepted, and a change of the file picker leaves it as it is.
C17_HighlightFollowsDrag ==
  [][ /\ HandleDragOver => dragover'
      /\ HandleDragLeave => ~dragover'
      /\ HandleDrop => ~dragover'
      /\ HandleChange => dragover' = dragover ]_vars

\* a drop has been handled (its file rejected) and the highlight is off
C17_Witness ==
  /\ event.type = "drop"
  /\ Len(calls) = 1
  /\ calls[1].fn = "onError"
  /\ ~dragover

\* C18: the display and the file input agree: the placeholder is hidden
\* (a preview shown) exactly when the file input holds a file.
C18_DisplayAgreesWithInput ==
  (dom.messageDisplay = "none") <=> (Len(inputFiles) > 0)

\* C19: an event carrying a file makes exactly one callback call, onChanged
\* or onError, with the file at index 0; an event carrying none makes no call.
C19_OneCallbackPerEvent ==
  IF EventHasFile
  THEN /\ Len(calls) = 1
       /\ calls[1].fn \in {"onChanged", "onError"}
       /\ calls[1].file = EventFile
  ELSE calls = <<>>

\* a drop of two files has made the one call, for the first of them
C19_Witness ==
  /\ event.type = "drop"
  /\ Len(event.files) = 2
  /\ event.files[1] # event.files[2]
  /\ Len(calls) = 1
  /\ calls[1].file = event.files[1]

(***************************************************************************)
(* Further properties of the endpoint                                      *)
(***************************************************************************)
\* C15: the endpoint checks the transport error, then the type, then the
\* size, and answers with the first check that fails: a file with a transport
\* error gets the error line with its code whatever its type and size, a
\* file of a type not allowed the type line whatever its size.
C15_FirstFailingCheck ==
  (ePc = "done" /\ req.method = "POST") =>
    \A i \in 1..Len(req.files) :
      LET file == req.files[i].file
      IN  /\ file.error # 0
               => output[i] = <<"There was an error uploading the file: ",
                                ToString(file.error), "<br>">>
          /\ (file.error = 0 /\ file.type \notin allowedFileTypes)
               => output[i] = <<"File type not allowed: ">> \o file.type \o <<"<br>">>
          /\ (file.error = 0 /\ file.type \in allowedFileTypes /\ file.size > maxFileSize)
               => output[i] = <<"File is too large: ">> \o file.name \o <<"<br>">>

\* a file with a transport error, a wrong type and a size over the limit,
\* then a file with a wrong type and a size over the limit, have been answered
C15_Witness ==
  /\ ePc = "done"
  /\ Len(req.files) = 2
  /\ req.files[1].file.error = 1
  /\ req.files[1].file.type \notin allowedFileTypes
  /\ req.files[1].file.size > maxFileSize
  /\ req.files[2].file.error = 0
  /\ req.files[2].file.type \notin allowedFileTypes
  /\ req.files[2].file.size > maxFileSize
  /\ output[1] = <<"There was an error uploading the file: ", "1", "<br>">>
  /\ output[2][1] = "File type not allowed: "

\* C20: every stored file passed every check (no transport error, a type of
\* the allow-list, a size within the limit), and the call of uploadFile for a
\* file that fails a check leaves the files and the upload directory as they
\* were and does not report success.
C20_OnlyValidFilesStored ==
  /\ [](\A p \in DOMAIN stored : ~Rejected(stored[p]))
  /\ [][ (UploadFileStep /\ Rejected(req.files[idx].file))
           => /\ stored' = stored
              /\ dirExists' = dirExists
              /\ messages'[Len(messages')][1] # "File uploaded successfully: " ]_vars

\* a request of two files that fail a check has been answered: nothing is
\* stored and the upload directory has not been created
C20_Witness ==
  /\ ePc = "done"
  /\ nReq = 1
  /\ Len(req.files) = 2
  /\ \A i \in 1..2 : Rejected(req.files[i].file)
  /\ Len(output) = 2
  /\ stored = <<>>
  /\ ~dirExists

(***************************************************************************)
(* Properties of concurrent requests                                       *)
(***************************************************************************)
\* the path the file of request r is moved to
PathOf(r) == UploadFilePath(FinalFileName(cReq[r].file.name, cReq[r].fileName))

\* C16: a move replaces whatever is at the final path, without detection or
\* renaming: every request whose move succeeded is told so, also when
\* another request wrote the same path, the stored paths are exactly the
\* final paths of those requests, and each path holds the file of the request
\* that wrote it last.
C16_LastWriteWins ==
  /\ \A i \in 1..Len(written) : cMsg[written[i]][1] = "File uploaded successfully: "
  /\ DOMAIN stored = {PathOf(written[i]) : i \in 1..Len(written)}
  /\ \A p \in DOMAIN stored :
       LET W == {i \in 1..Len(written) : PathOf(written[i]) = p}
           last == CHOOSE i \in W : \A j \in W : j <= i
       IN  stored[p] = cReq[written[last]].file

\* two requests with different files have written the same path, the
\* request started second first, and the path holds the later file
C16_Witness ==
  /\ \A r \in ConcurrentRequests : cPc[r] = "done"
  /\ Len(written) >= 2
  /\ written[1] = 2
  /\ written[2] = 1
  /\ PathOf(1) = PathOf(2)
  /\ cReq[1].file # cReq[2].file
  /\ cMsg[1][1] = "File uploaded successfully: "
  /\ cMsg[2][1] = "File uploaded successfully: "
  /\ stored[PathOf(1)] = cReq[1].file

\* C16 within one submission: two files of a request that resolve to the
\* same final name are both reported as uploaded, and the second is stored.
C16_SameSubmission ==
  ( /\ ePc = "done"
    /\ Len(req.files) = 2
    /\ output[1][1] = "File uploaded successfully: "
    /\ output[2][1] = "File uploaded successfully: "
    /\ FinalFileName(req.files[1].file.name, req.post[NameKey(1)])
         = FinalFileName(req.files[2].file.name, req.post[NameKey(2)]) )
  => stored[UploadFilePath(FinalFileName(req.files[2].file.name, req.post[NameKey(2)]))]
       = req.files[2].file
====
